---------------------------- MODULE Spec2Model ----------------------------
(***************************************************************************)
(* State-machine model of CropView's python_processing package.            *)
(*                                                                         *)
(*  Part I  (SpecLoader): multispectral_loader.py, the band-schema          *)
(*           detection / normalisation engine (load_multispectral_image).  *)
(*  Part II (SpecIndex):  image_processor.py, the vegetation-index engine   *)
(*           (calculate_ndvi / calculate_savi / calculate_gndvi) and the    *)
(*           orchestrator analyze_crop_health.                              *)
(*  Part III (SpecWorker): background_worker.py, the polling worker, with   *)
(*           the images table it reads and updates through db_utils.py.     *)
(*           SpecService runs the API's analyze_crop_health calls and then  *)
(*           the worker.                                                    *)
(*           SpecOutage is the worker on a database that can fail.          *)
(*           SpecShutdown is the worker whose process keeps taking steps.   *)
(*  Part IV (SpecBatch): batch_test_ndvi.py, the folder script, run before  *)
(*           the worker of SpecOutage.                                      *)
(*  Part V  (SpecPool): several worker processes polling one table.        *)
(*  Part VI (SpecStore): db_utils.save_analysis over the tables analyses    *)
(*           and stress_zones.                                              *)
(*                                                                         *)
(* Modelling conventions                                                   *)
(*  - An image array is the sequence of its channels; every channel is     *)
(*    represented by one raw integer sample.  The channels of a file hold  *)
(*    distinct non-zero samples, so the provenance of every output channel *)
(*    can be read off its value; a zero-filled channel holds 0.            *)
(*  - Spatial resizing acts on each channel separately and is not          *)
(*    represented (one sample per channel).                                *)
(*  - Python's None image is the empty sequence NoImage; a dict key that   *)
(*    is absent is the empty string / empty sequence of its field.         *)
(*  - Python indices are 0-based and are kept 0-based in                   *)
(*    source_band_indices; None as an index is NoneIdx.                    *)
(***************************************************************************)
EXTENDS Integers, Sequences, FiniteSets, TLC

(***************************************************************************)
(* Bounds of the model                                                     *)
(***************************************************************************)
\* longest band order a caller declares
MaxDeclared == 4
\* most channels a file on disk carries
MaxFileBands == 5

(***************************************************************************)
(* Part I: multispectral_loader.py                                         *)
(***************************************************************************)
VARIABLES
    lpc,                  \* position inside load_multispectral_image
    req,                  \* the call's arguments and the file it names
    band_schema,          \* the band_schema dict being built / returned
    source_band_order,    \* local source_band_order
    target_band_order,    \* local target_band_order
    has_nir,              \* local has_nir
    source_band_indices,  \* local source_band_indices
    img,                  \* local img: sequence of channel samples (NoImage = None)
    img_div               \* divisor the samples were normalised by (1 = raw)

loaderVars == <<lpc, req, band_schema, source_band_order, target_band_order,
                has_nir, source_band_indices, img, img_div>>

(***************************************************************************)
(* Part II state: image_processor.py                                       *)
(***************************************************************************)
VARIABLES
    apc,            \* position inside analyze_crop_health
    areq,           \* the call's arguments and the input file
    processed,      \* the image stored at processed_path (NoPicture = no file)
    ndvi_results,   \* dict returned by calculate_ndvi
    savi_results,   \* dict returned by calculate_savi
    gndvi_results,  \* dict returned by calculate_gndvi
    tf_results,     \* dict returned by classify_crop_health_tensorflow
    analysis        \* dict returned by analyze_crop_health

indexVars == <<apc, areq, processed, ndvi_results, savi_results, gndvi_results,
               tf_results, analysis>>

(***************************************************************************)
(* Part III state: background_worker.py and the images table of db_utils.py *)
(***************************************************************************)
VARIABLES
    wpc,          \* position of the worker process inside main()
    registry,     \* datasets/dataset_registry.yaml as found at startup
    running,      \* global running
    model_cache,  \* global _model_cache (model_type; "" = no model)
    images,       \* table images: id -> row (status) and the file it names
    pending,      \* pending_images still to be iterated by process_batch
    last_result,  \* id -> how process_image last returned for that image
    analyses,     \* table analyses: ids with a saved analysis record
    validations,  \* calls of validate_canonical_band_order so far
    fetched,      \* get_pending_images has been called
    db            \* "up": the database executes statements; "down": they raise

workerVars == <<wpc, registry, running, model_cache, images, pending,
                last_result, analyses, validations, fetched, db>>

(***************************************************************************)
(* Part IV state: batch_test_ndvi.py, process_image_folder                  *)
(***************************************************************************)
VARIABLES
    spc,        \* position inside process_image_folder
    image_files,\* the image files found in the folder, as their kinds
    next_file,  \* 1-based position of the for loop in image_files
    results,    \* positions of the files appended to results
    failed,     \* positions of the files appended to failed
    json_files  \* positions of the files whose _analysis.json is written

scriptVars == <<spc, image_files, next_file, results, failed, json_files>>

(***************************************************************************)
(* Part V state: several worker processes on one images table              *)
(***************************************************************************)
VARIABLES
    wk,          \* worker -> its position in the polling loop and its pending list
    started_by,  \* image id -> the workers that marked it 'processing'
    analysed_by  \* image id -> the workers that called analyze_crop_health on it

poolVars == <<wk, started_by, analysed_by>>

(***************************************************************************)
(* Part VI state: the tables analyses and stress_zones of db_utils.py      *)
(***************************************************************************)
VARIABLES
    analysis_rows,    \* image id -> the rows of analyses with that image_id
    stress_zone_rows, \* image id -> the rows of stress_zones of its analysis
    last_saved,       \* image id -> stress_zones of the last successful call
    save_returned     \* what the last save_analysis call returned

storeVars == <<analysis_rows, stress_zone_rows, last_saved, save_returned>>

vars == <<loaderVars, indexVars, workerVars, scriptVars, poolVars, storeVars>>

STANDARD_MULTISPECTRAL_BANDS == <<"R", "G", "B", "NIR">>
STANDARD_RGB_BANDS == <<"R", "G", "B">>

\* band names that occur in declarations: the canonical ones and red-edge
BandNames == {"R", "G", "B", "NIR", "RE"}

NoImage == <<>>
NoneIdx == -1
EmptyDict == <<>>

InSeq(x, s) == \E i \in 1..Len(s) : s[i] = x

\* list.index(x): 0-based position of the first occurrence
IndexOf(x, s) == (CHOOSE i \in 1..Len(s) : s[i] = x /\ \A j \in 1..(i-1) : s[j] # x) - 1

\* [b for b in s if P(b)] for the two filters the loader uses
RECURSIVE FilterNotIn(_, _)
FilterNotIn(s, t) ==
    IF s = <<>> THEN <<>>
    ELSE (IF InSeq(Head(s), t) THEN <<>> ELSE <<Head(s)>>) \o FilterNotIn(Tail(s), t)

Min(a, b) == IF a < b THEN a ELSE b

\* img[:, :, :n]
Take(s, n) == SubSeq(s, 1, Min(n, Len(s)))

\* np.zeros((h, w, n))
Zeros(n) == [i \in 1..n |-> 0]

\* all sequences without repetition over S of length 0..n
RECURSIVE OrdersUpTo(_, _)
OrdersUpTo(S, n) ==
    IF n = 0 THEN {<<>>}
    ELSE LET shorter == OrdersUpTo(S, n - 1)
         IN shorter \cup {Append(s, b) : s \in {t \in shorter : Len(t) = n - 1},
                                         b \in S}

NoRepeat(s) == \A i, j \in 1..Len(s) : i # j => s[i] # s[j]

\* band orders a caller can declare (band_order argument); <<>> is None / []
DeclaredOrders == {s \in OrdersUpTo(BandNames, MaxDeclared) : NoRepeat(s)}

\* datasets of dataset_registry.yaml (the file is configuration, not code):
\* the built-in default entry and representative multispectral layouts
RegistryDatasets ==
    [ default  |-> [band_order |-> STANDARD_RGB_BANDS, band_count |-> 3,
                    source_band_order |-> STANDARD_RGB_BANDS],
      bgr      |-> [band_order |-> STANDARD_RGB_BANDS, band_count |-> 3,
                    source_band_order |-> <<"B", "G", "R">>],
      uav_ms   |-> [band_order |-> STANDARD_MULTISPECTRAL_BANDS, band_count |-> 4,
                    source_band_order |-> STANDARD_MULTISPECTRAL_BANDS],
      uav_ms5  |-> [band_order |-> STANDARD_MULTISPECTRAL_BANDS, band_count |-> 4,
                    source_band_order |-> <<"B", "G", "R", "RE", "NIR">>],
      rgb_only |-> [band_order |-> STANDARD_MULTISPECTRAL_BANDS, band_count |-> 4,
                    source_band_order |-> STANDARD_RGB_BANDS] ]

DatasetNames == DOMAIN RegistryDatasets

\* pixel depths of a file
Dtypes == {"uint8", "uint16", "float32"}

\* raw sample held by channel i (0-based) of a file of the given dtype
FileSample(dtype, i) ==
    CASE dtype = "uint8"  -> 50 * (i + 1)
      [] dtype = "uint16" -> 10000 * (i + 1)
      [] OTHER            -> i + 1

\* the array a decoder reads from a file with n channels
FileArray(dtype, n) == [i \in 1..n |-> FileSample(dtype, i - 1)]


Range(s) == {s[i] : i \in 1..Len(s)}

\* f'Band_{i}' for i in range(band_count): names of bands of unknown meaning
UnknownBandNames ==
    <<"Band_0", "Band_1", "Band_2", "Band_3", "Band_4", "Band_5", "Band_6", "Band_7">>

\* the schema dict before any key is set
EmptySchema ==
    [bands |-> <<>>, band_count |-> 0, band_order |-> <<>>,
     source_band_order |-> <<>>, missing_bands |-> <<>>, dropped_bands |-> <<>>,
     processing_path |-> "", fallback_reason |-> "",
     source_band_indices |-> EmptyDict]

\* _detect_band_count: the channel count of the file as its decoder reports it
detect_band_count(file_bands) == file_bands

\* detect_band_schema(image_path, dataset_name)
detect_band_schema(dataset, file_bands) ==
    IF dataset # "" /\ dataset \in DatasetNames
    THEN LET cfg == RegistryDatasets[dataset]
         IN [EmptySchema EXCEPT !.bands = cfg.band_order,
                                !.band_count = cfg.band_count,
                                !.band_order = cfg.band_order,
                                !.source_band_order = cfg.source_band_order]
    ELSE LET band_count == detect_band_count(file_bands)
         IN IF band_count = 3
            THEN [EmptySchema EXCEPT !.bands = STANDARD_RGB_BANDS,
                                     !.band_count = 3,
                                     !.band_order = STANDARD_RGB_BANDS,
                                     !.source_band_order = STANDARD_RGB_BANDS]
            ELSE IF band_count >= 4
            THEN [EmptySchema EXCEPT !.bands = STANDARD_MULTISPECTRAL_BANDS,
                                     !.band_count = 4,
                                     !.band_order = STANDARD_MULTISPECTRAL_BANDS,
                                     !.source_band_order =
                                         SubSeq(UnknownBandNames, 1, band_count)]
            ELSE [EmptySchema EXCEPT !.bands = STANDARD_RGB_BANDS,
                                     !.band_count = 3,
                                     !.band_order = STANDARD_RGB_BANDS,
                                     !.source_band_order = STANDARD_RGB_BANDS]

\* validate_band_schema(band_schema): <<is_valid, error_message>>
validate_band_schema(schema) ==
    LET available_bands == schema.band_order
        valid_bands == Range(STANDARD_MULTISPECTRAL_BANDS) \cup Range(STANDARD_RGB_BANDS)
        invalid_bands == {b \in Range(available_bands) : b \notin valid_bands}
        has_rgb == \E b \in Range(STANDARD_RGB_BANDS) : InSeq(b, available_bands)
        nir == InSeq("NIR", available_bands)
    IN  IF available_bands = <<>> THEN <<FALSE, "Empty band_order in schema">>
        ELSE IF invalid_bands # {} THEN <<FALSE, "Invalid band names">>
        ELSE IF ~has_rgb /\ ~nir THEN <<FALSE, "Schema has no mappable bands">>
        ELSE <<TRUE, "">>

\* mutant of MissingBandFill: the missing band approximated from the others
ApproximatedBandFill(im) == IF Len(im) >= 2 THEN 2 * im[2] - im[1] ELSE im[1]

\* what _reorder_bands_to_standard writes for a band the source lacks
MissingBandFill(im) == 0

\* mutant of reorder_bands_to_standard: a band the source order does not
\* name is taken from the channel at the band's own position
reorder_bands_by_position(im, source, target) ==
    [raised  |-> Len(im) = 0,
     img     |-> IF Len(im) = 0 THEN NoImage
                 ELSE [i \in 1..Len(target) |->
                         IF InSeq(target[i], source)
                         THEN im[Min(IndexOf(target[i], source) + 1, Len(im))]
                         ELSE im[Min(i, Len(im))]],
     indices |-> [b \in Range(target) |-> NoneIdx],
     missing |-> FilterNotIn(target, source)]

\* _reorder_bands_to_standard(img, source_band_order, target_band_order);
\* raised: img[:, :, k] with k beyond the array's channels is an IndexError
reorder_bands_to_standard(im, source, target) ==
    LET indices == [b \in Range(target) |->
                       IF InSeq(b, source) THEN IndexOf(b, source) ELSE NoneIdx]
        missing == FilterNotIn(target, source)
        raised == \/ Len(im) = 0
                  \/ \E b \in Range(target) : indices[b] >= Len(im)
    IN  [raised  |-> raised,
         img     |-> IF raised THEN NoImage
                     ELSE [i \in 1..Len(target) |->
                             IF indices[target[i]] # NoneIdx
                             THEN im[indices[target[i]] + 1]
                             ELSE MissingBandFill(im)],
         indices |-> indices,
         missing |-> missing]

SeqMax(s) == CHOOSE m \in Range(s) \cup {0} : \A x \in Range(s) \cup {0} : x <= m

\* the "Normalize" block: the divisor the samples are divided by
NormDivisor(im, dtype) ==
    IF dtype = "uint16" THEN 65535
    ELSE IF dtype = "uint8" THEN 255
    ELSE IF SeqMax(im) > 0 THEN SeqMax(im) ELSE 1

\* no call in progress
NoRequest ==
    [band_order |-> <<>>, dataset |-> "", require_nir |-> FALSE,
     file_bands |-> 3, dtype |-> "uint8"]

LoaderInit ==
    /\ lpc = "idle"
    /\ req = NoRequest
    /\ band_schema = EmptySchema
    /\ source_band_order = <<>>
    /\ target_band_order = <<>>
    /\ has_nir = FALSE
    /\ source_band_indices = EmptyDict
    /\ img = NoImage
    /\ img_div = 1

\* a call of load_multispectral_image: a declared band order, or a dataset
\* name (possibly unknown to the registry, ""), on a file of 1..MaxFileBands
\* channels
Call ==
    /\ UNCHANGED <<indexVars, workerVars, scriptVars, poolVars, storeVars>>
    /\ lpc = "idle"
    /\ \E bo \in DeclaredOrders, ds \in DatasetNames \cup {""},
          rn \in BOOLEAN, fb \in 1..MaxFileBands, dt \in Dtypes :
          /\ bo # <<>> => ds = ""
          /\ req' = [band_order |-> bo, dataset |-> ds, require_nir |-> rn,
                     file_bands |-> fb, dtype |-> dt]
    /\ lpc' = "schema"
    /\ band_schema' = EmptySchema
    /\ source_band_order' = <<>>
    /\ target_band_order' = <<>>
    /\ has_nir' = FALSE
    /\ source_band_indices' = EmptyDict
    /\ img' = NoImage
    /\ img_div' = 1

\* lines 296-328: build the schema, validate it, force the RGB fallback
ResolveSchema ==
    /\ UNCHANGED <<indexVars, workerVars, scriptVars, poolVars, storeVars>>
    /\ lpc = "schema"
    /\ LET schema0 == IF req.band_order # <<>>
                      THEN [EmptySchema EXCEPT !.bands = req.band_order,
                                               !.band_count = Len(req.band_order),
                                               !.band_order = req.band_order,
                                               !.source_band_order = req.band_order]
                      ELSE detect_band_schema(req.dataset, req.file_bands)
           v == validate_band_schema(schema0)
       IN  /\ source_band_order' = schema0.source_band_order
           /\ IF v[1]
              THEN /\ band_schema' = schema0
                   /\ target_band_order' = schema0.band_order
              ELSE /\ band_schema' = [schema0 EXCEPT
                                         !.band_order = STANDARD_RGB_BANDS,
                                         !.band_count = 3,
                                         !.missing_bands = <<"NIR">>,
                                         !.fallback_reason = v[2],
                                         !.processing_path = "rgb_fallback"]
                   /\ target_band_order' = STANDARD_RGB_BANDS
    /\ lpc' = "path"
    /\ UNCHANGED <<req, has_nir, source_band_indices, img, img_div>>

\* lines 341-352: the multispectral branch's schema
MultispectralSchema(schema, source) ==
    [schema EXCEPT !.band_order = STANDARD_MULTISPECTRAL_BANDS,
                   !.band_count = 4,
                   !.missing_bands = FilterNotIn(STANDARD_MULTISPECTRAL_BANDS, source),
                   !.dropped_bands = FilterNotIn(source, STANDARD_MULTISPECTRAL_BANDS),
                   !.processing_path = "multispectral"]

\* lines 356-363: NIR required but not available
RequireNirSchema(schema) ==
    [schema EXCEPT !.band_order = STANDARD_RGB_BANDS,
                   !.band_count = 3,
                   !.missing_bands = <<"NIR">>,
                   !.processing_path = "rgb_fallback",
                   !.fallback_reason = "NIR required but not available"]

\* lines 364-370: RGB only
RgbOnlySchema(schema) ==
    [schema EXCEPT !.band_order = STANDARD_RGB_BANDS,
                   !.band_count = 3,
                   !.missing_bands = <<"NIR">>,
                   !.processing_path = "rgb"]

\* line 331
HasNir(schema) == InSeq("NIR", schema.band_order)

\* lines 330-373: choose the processing path
SelectPath ==
    /\ UNCHANGED <<indexVars, workerVars, scriptVars, poolVars, storeVars>>
    /\ lpc = "path"
    /\ has_nir' = HasNir(band_schema)
    /\ IF has_nir'
       THEN /\ target_band_order' = STANDARD_MULTISPECTRAL_BANDS
            /\ band_schema' = MultispectralSchema(band_schema, source_band_order)
       ELSE IF req.require_nir
       THEN /\ target_band_order' = STANDARD_RGB_BANDS
            /\ band_schema' = RequireNirSchema(band_schema)
       ELSE /\ target_band_order' = STANDARD_RGB_BANDS
            /\ band_schema' = RgbOnlySchema(band_schema)
    /\ img' = NoImage
    /\ source_band_indices' = EmptyDict
    /\ lpc' = "tiff"
    /\ UNCHANGED <<req, source_band_order, img_div>>

\* lines 389-398 (tifffile) and 428-441 (rasterio): keep at most band_count
\* channels, then reorder when the source order differs from the target
LimitAndReorder(raw, schema, source, target) ==
    LET limited == IF Len(raw) > schema.band_count
                   THEN Take(raw, schema.band_count) ELSE raw
    IN  IF source # target
        THEN reorder_bands_to_standard(limited, source, target)
        ELSE [raised |-> FALSE, img |-> limited,
              indices |-> EmptyDict, missing |-> <<>>]

\* lines 375-421: the tifffile decoder
DecodeTifffile ==
    /\ UNCHANGED <<indexVars, workerVars, scriptVars, poolVars, storeVars>>
    /\ lpc = "tiff"
    /\ \/ \* not a .tif/.tiff, tifffile not installed, or imread raises
          /\ img' = NoImage
          /\ lpc' = "raster"
          /\ UNCHANGED <<band_schema, source_band_indices, img_div>>
       \/ \* imread succeeds
          LET r == LimitAndReorder(FileArray(req.dtype, req.file_bands),
                                   band_schema, source_band_order, target_band_order)
              reordered == source_band_order # target_band_order /\ ~r.raised
              schema1 == IF reordered
                         THEN [band_schema EXCEPT !.missing_bands = r.missing]
                         ELSE band_schema
              indices1 == IF reordered THEN r.indices ELSE source_band_indices
          IN  \/ \* the reorder raises IndexError: caught, img = None
                 /\ r.raised
                 /\ img' = NoImage
                 /\ lpc' = "raster"
                 /\ UNCHANGED <<band_schema, source_band_indices, img_div>>
              \/ \* resize and normalise succeed
                 /\ ~r.raised
                 /\ img' = r.img
                 /\ img_div' = NormDivisor(r.img, req.dtype)
                 /\ band_schema' = schema1
                 /\ source_band_indices' = indices1
                 /\ lpc' = "final"
              \/ \* cv2.resize raises after the reorder: caught, img = None
                 /\ ~r.raised
                 /\ img' = NoImage
                 /\ band_schema' = schema1
                 /\ source_band_indices' = indices1
                 /\ lpc' = "raster"
                 /\ UNCHANGED img_div
    /\ UNCHANGED <<req, source_band_order, target_band_order, has_nir>>

\* lines 423-455: the rasterio decoder (img is None here)
DecodeRasterio ==
    /\ UNCHANGED <<indexVars, workerVars, scriptVars, poolVars, storeVars>>
    /\ lpc = "raster"
    /\ \/ \* wrong suffix, rasterio not installed, or open/read raises
          /\ img' = NoImage
          /\ lpc' = "cv"
          /\ UNCHANGED <<band_schema, source_band_indices, img_div>>
       \/ \* the bands are read
          LET r == LimitAndReorder(FileArray(req.dtype, req.file_bands),
                                   band_schema, source_band_order, target_band_order)
          IN  \/ /\ r.raised
                 /\ img' = NoImage
                 /\ lpc' = "cv"
                 /\ UNCHANGED <<band_schema, source_band_indices, img_div>>
              \/ /\ ~r.raised
                 /\ source_band_order # target_band_order
                 /\ img' = r.img
                 /\ img_div' = NormDivisor(r.img, req.dtype)
                 /\ band_schema' = [band_schema EXCEPT !.missing_bands = r.missing]
                 /\ source_band_indices' = r.indices
                 /\ lpc' = "final"
              \/ \* no reorder: the normalisation sits inside the reorder branch
                 /\ ~r.raised
                 /\ source_band_order = target_band_order
                 /\ img' = r.img
                 /\ lpc' = "final"
                 /\ UNCHANGED <<band_schema, source_band_indices, img_div>>
    /\ UNCHANGED <<req, source_band_order, target_band_order, has_nir>>

\* channel counts cv2.imread(IMREAD_UNCHANGED) can return
OpenCVChannels == {1, 3, 4}

\* lines 464-471: grayscale is replicated to RGB; BGR/BGRA become RGB/RGBA,
\* which is the file's own channel order
OpenCVArray(dtype, n) ==
    IF n = 1 THEN [i \in 1..3 |-> FileSample(dtype, 0)] ELSE FileArray(dtype, n)

\* line 488
RgbIdentityIndices == [b \in Range(STANDARD_RGB_BANDS) |-> IndexOf(b, STANDARD_RGB_BANDS)]

\* lines 457-491: the OpenCV fallback (img is None here)
DecodeOpenCV ==
    /\ UNCHANGED <<indexVars, workerVars, scriptVars, poolVars, storeVars>>
    /\ lpc = "cv"
    /\ \/ \* imread returns None or raises: ValueError out of the function
          /\ lpc' = "raised"
          /\ UNCHANGED <<band_schema, source_band_indices, target_band_order,
                         img, img_div>>
       \/ /\ req.file_bands \in OpenCVChannels
          /\ LET raw == OpenCVArray(req.dtype, req.file_bands)
             IN  IF Len(raw) > 3
                 THEN /\ img' = Take(raw, 3)
                      /\ target_band_order' = STANDARD_RGB_BANDS
                      /\ band_schema' = [band_schema EXCEPT
                                            !.band_order = STANDARD_RGB_BANDS,
                                            !.band_count = 3,
                                            !.missing_bands = <<"NIR">>]
                 ELSE /\ img' = raw
                      /\ target_band_order' = target_band_order
                      /\ band_schema' = [band_schema EXCEPT
                                            !.missing_bands = <<"NIR">>]
          /\ img_div' = 255
          /\ source_band_indices' = RgbIdentityIndices
          /\ lpc' = "final"
    /\ UNCHANGED <<req, source_band_order, has_nir>>

\* lines 493-507: pad with zero channels or cut to band_count
EnsureChannels(im, nir, band_count) ==
    IF nir /\ Len(im) < 4 THEN im \o Zeros(4 - Len(im))
    ELSE IF ~nir /\ Len(im) < 3 THEN im \o Zeros(3 - Len(im))
    ELSE IF Len(im) > band_count THEN Take(im, band_count)
    ELSE im

\* lines 509-512: the provenance written into the returned schema
FinalSchema(schema, indices, target, im) ==
    [schema EXCEPT !.source_band_indices = indices,
                   !.band_order = target,
                   !.band_count = Len(im)]

\* lines 493-529: fix the channel count, complete the schema, return
Finalize ==
    /\ UNCHANGED <<indexVars, workerVars, scriptVars, poolVars, storeVars>>
    /\ lpc = "final"
    /\ img' = EnsureChannels(img, has_nir, band_schema.band_count)
    /\ band_schema' = FinalSchema(band_schema, source_band_indices,
                                  target_band_order, img')
    /\ lpc' = "done"
    /\ UNCHANGED <<req, source_band_order, target_band_order, has_nir,
                   source_band_indices, img_div>>

\* the caller takes the result (or the ValueError); the next call may start
Return ==
    /\ UNCHANGED <<indexVars, workerVars, scriptVars, poolVars, storeVars>>
    /\ lpc \in {"done", "raised"}
    /\ lpc' = "idle"
    /\ band_schema' = EmptySchema
    /\ source_band_order' = <<>>
    /\ target_band_order' = <<>>
    /\ has_nir' = FALSE
    /\ source_band_indices' = EmptyDict
    /\ img' = NoImage
    /\ img_div' = 1
    /\ req' = NoRequest

LoaderNext ==
    \/ Call
    \/ ResolveSchema
    \/ SelectPath
    \/ DecodeTifffile
    \/ DecodeRasterio
    \/ DecodeOpenCV
    \/ Finalize
    \/ Return


(***************************************************************************)
(* Properties of load_multispectral_image                                  *)
(***************************************************************************)
Returned == lpc = "done"

DeclaredUnknownBand ==
    /\ req.band_order # <<>>
    /\ \E b \in Range(req.band_order) : b \notin Range(STANDARD_MULTISPECTRAL_BANDS)

\* C1: a declared band_order with a band name outside {R, G, B, NIR} returns,
\* for either value of require_nir, processing_path = 'rgb_fallback', a
\* non-empty fallback_reason and a 3-channel RGB output.
C1_UnknownBandForcesFallback ==
    (Returned /\ DeclaredUnknownBand) =>
        /\ band_schema.processing_path = "rgb_fallback"
        /\ band_schema.fallback_reason # ""
        /\ band_schema.band_order = STANDARD_RGB_BANDS
        /\ Len(img) = 3

\* the case of C2: the canonical target chosen for the call is [R, G, B, NIR]
\* and the source band order has no NIR
SourceLacksNir == has_nir /\ ~InSeq("NIR", source_band_order)

\* C2: when the source band order lacks NIR and the canonical target is
\* [R, G, B, NIR], the NIR channel of the output is all zeros and
\* missing_bands contains 'NIR'; it is never filled from another channel.
C2_MissingNirIsZeroFilled ==
    (Returned /\ SourceLacksNir) =>
        /\ Len(img) = 4
        /\ img[4] = 0
        /\ InSeq("NIR", band_schema.missing_bands)

\* a source without NIR whose R channel was copied while NIR was zero-filled
C2_Witness ==
    /\ Returned
    /\ SourceLacksNir
    /\ req.file_bands >= 4
    /\ InSeq("R", source_band_order)
    /\ img[1] # 0
    /\ img[4] = 0

IdentityIndices(order) == [b \in Range(order) |-> IndexOf(b, order)]

\* C3: when the source band order equals the target band order, the returned
\* source_band_indices is the identity mapping and missing_bands is empty.
C3_SameOrderIdentityMapping ==
    (Returned /\ source_band_order = band_schema.band_order) =>
        /\ band_schema.source_band_indices = IdentityIndices(band_schema.band_order)
        /\ band_schema.missing_bands = <<>>

\* C4: every returned schema has band_count = len(bands).
C4_BandCountIsLenBands ==
    Returned => band_schema.band_count = Len(band_schema.bands)

BandPresent(schema, b) ==
    /\ b \in DOMAIN schema.source_band_indices
    /\ schema.source_band_indices[b] # NoneIdx

BandMissing(schema, b) == InSeq(b, schema.missing_bands)

\* C5: in every returned schema each band of the canonical order used for
\* the output is either present (non-null source index) or listed in
\* missing_bands, never both and never neither.
C5_EachBandPresentXorMissing ==
    Returned =>
        \A b \in Range(band_schema.band_order) :
            BandPresent(band_schema, b) # BandMissing(band_schema, b)

\* C6: on return band_order is exactly [R, G, B] or [R, G, B, NIR] and the
\* array has len(band_order) channels, on every decode path.
C6_ChannelsMatchBandOrder ==
    Returned =>
        /\ band_schema.band_order \in {STANDARD_RGB_BANDS, STANDARD_MULTISPECTRAL_BANDS}
        /\ Len(img) = Len(band_schema.band_order)

\* C7: processing_path is 'multispectral' exactly when both the canonical
\* target order and the source band order contain NIR; the array then has
\* 4 channels, and 3 channels on the 'rgb' and 'rgb_fallback' paths.
C7_MultispectralIffBothHaveNir ==
    Returned =>
        /\ (band_schema.processing_path = "multispectral")
               <=> (has_nir /\ InSeq("NIR", source_band_order))
        /\ band_schema.processing_path = "multispectral" => Len(img) = 4
        /\ band_schema.processing_path \in {"rgb", "rgb_fallback"} => Len(img) = 3

\* the divisor the pixel depth of an integer-typed file determines
DepthDivisor(dtype) == IF dtype = "uint16" THEN 65535 ELSE 255

\* C21: on every decode path, reordered or not, the samples of an 8-bit or
\* 16-bit file are divided by 255 or 65535 respectively, so every returned
\* value lies in [0, 1].
C21_IntegerDepthNormalised ==
    (Returned /\ req.dtype \in {"uint8", "uint16"}) =>
        /\ img_div = DepthDivisor(req.dtype)
        /\ \A i \in 1..Len(img) : 0 <= img[i] /\ img[i] <= img_div

\* the source order names every channel of the file, one of them a band
\* outside the canonical set, and is longer than the order of the output
HasDroppedBand ==
    /\ req.file_bands = Len(source_band_order)
    /\ Len(source_band_order) > Len(band_schema.band_order)
    /\ \E b \in Range(source_band_order) : b \notin Range(STANDARD_MULTISPECTRAL_BANDS)

\* C26: when the source order is longer than the canonical target because
\* it holds a dropped band, every canonical band of the output that the
\* source order names carries the samples of its channel in the source
\* order and is not reported missing.
C26_DroppedBandKeepsCanonicalChannels ==
    (Returned /\ HasDroppedBand) =>
        \A k \in 1..Len(band_schema.band_order) :
            LET b == band_schema.band_order[k]
            IN  InSeq(b, source_band_order) =>
                   /\ k <= Len(img)
                   /\ img[k] = FileSample(req.dtype, IndexOf(b, source_band_order))
                   /\ ~InSeq(b, band_schema.missing_bands)

\* create_band_mask(band_schema, required_bands): band -> 1 (1.0) or 0 (0.0)
create_band_mask(schema, required_bands) ==
    LET available_bands == schema.band_order
        missing_bands == schema.missing_bands
    IN  [band \in Range(required_bands) |->
            IF InSeq(band, available_bands) THEN 1
            ELSE IF InSeq(band, missing_bands) THEN 0
            ELSE IF InSeq(band, available_bands) THEN 1 ELSE 0]

\* C27: for a returned schema create_band_mask gives a band 0.0 whenever
\* missing_bands lists it, and 1.0 only when the source order holds it; a
\* zero-filled NIR of the multispectral path is masked 0.0.
C27_MaskMarksPresenceTruthfully ==
    Returned =>
        LET mask == create_band_mask(band_schema, STANDARD_MULTISPECTRAL_BANDS)
        IN  \A band \in Range(STANDARD_MULTISPECTRAL_BANDS) :
               /\ InSeq(band, band_schema.missing_bands) => mask[band] = 0
               /\ mask[band] = 1 => InSeq(band, source_band_order)

\* no band order is declared, no registry dataset is named, and the file
\* is detected to have four or more bands
UndeclaredManyBands ==
    /\ req.band_order = <<>>
    /\ req.dataset = ""
    /\ req.file_bands >= 4

\* line 488: the mapping that only the OpenCV fallback writes
OpenCVDecoded == source_band_indices = RgbIdentityIndices

MaxPixels == 2

\* fixed-point unit: a value v stands for v / Scale
Scale == 10000
\* round(x, 3) and round(x, 2) keep multiples of these
Unit3 == Scale \div 1000
Unit2 == Scale \div 100

\* 8-bit sample values that occur in pictures
PixelLevels == {0, 64, 128, 255}

Pixels == [r : PixelLevels, g : PixelLevels]

\* one-row pictures of every pixel combination
SmallPictures == UNION {[h : {1}, w : {n}, px : [1..n -> Pixels]] : n \in 1..MaxPixels}

\* pixels named in the pictures below
VeryLowPixel == [r |-> 255, g |-> 0]
ModeratePixel == [r |-> 64, g |-> 128]
FlatGreyPixel == [r |-> 128, g |-> 128]
VigorousPixel == [r |-> 0, g |-> 255]

\* an h x w picture whose pixel at (row, col), 0-based, is f[row][col]
Picture(h, w, f) ==
    [h |-> h, w |-> w,
     px |-> [k \in 1..(h * w) |-> f[(k - 1) \div w][(k - 1) % w]]]

UniformPicture(h, w, p) == Picture(h, w, [row \in 0..(h - 1) |-> [col \in 0..(w - 1) |-> p]])

\* pictures the 10x10 grid fits in: uniform ones, one whose left half is
\* stressed, one whose rows alternate (each cell spans two rows), and a
\* uniform picture too small for the grid
GridPictures ==
    {UniformPicture(10, 10, VeryLowPixel),
     UniformPicture(10, 10, ModeratePixel),
     UniformPicture(10, 10, FlatGreyPixel),
     UniformPicture(15, 12, VeryLowPixel),
     UniformPicture(5, 5, VeryLowPixel),
     Picture(10, 10, [row \in 0..9 |-> [col \in 0..9 |->
                         IF col < 5 THEN VeryLowPixel ELSE VigorousPixel]]),
     Picture(20, 10, [row \in 0..19 |-> [col \in 0..9 |->
                         IF row % 2 = 0 /\ col % 3 = 0 THEN VeryLowPixel
                         ELSE VigorousPixel]])}

\* a picture whose mean NDVI, 0.59955, lies just under a bucket threshold
ThresholdPicture ==
    [h |-> 1, w |-> 2, px |-> <<[r |-> 11, g |-> 17], [r |-> 2, g |-> 13]>>]

Pictures == SmallPictures \cup GridPictures \cup {ThresholdPicture}

NoPicture == [h |-> 0, w |-> 0, px |-> <<>>]

\* numpy's nan
NaN == -2000000000

\* a / b rounded to the nearest integer (b > 0)
RoundDiv(a, b) == (2 * a + b) \div (2 * b)

\* np.clip(x, lo, hi); nan stays nan
Clip(x, lo, hi) == IF x = NaN THEN NaN ELSE IF x < lo THEN lo ELSE IF x > hi THEN hi ELSE x

Round3(x) == IF x = NaN THEN NaN ELSE RoundDiv(x, Unit3) * Unit3
Round2(x) == IF x = NaN THEN NaN ELSE RoundDiv(x, Unit2) * Unit2

\* the 1e-7 added to every denominator, in units of 1e-7
EpsUnits == 1
\* SAVI's soil factor L = 0.5, in halves
LHalves == 1

\* a denominator whole + halves/2 + eps * 1e-7, kept exact
Denominator(whole, halves) == [halves |-> 2 * whole + halves, eps |-> EpsUnits]

DenPositive(d) == d.halves > 0 \/ (d.halves = 0 /\ d.eps > 0)

\* num / d in fixed point.  With d >= 1/2 the eps term moves the quotient by
\* less than one part in 10^6, below the unit; with d = eps the quotient is
\* num * 10^7, beyond every clip bound, kept as +-Scale*Scale; 0/0 is nan.
Quot(num, d) ==
    IF d.halves > 0 THEN RoundDiv(2 * num * Scale, d.halves)
    ELSE IF d.eps > 0
         THEN (IF num = 0 THEN 0 ELSE IF num > 0 THEN Scale * Scale ELSE 0 - Scale * Scale)
    ELSE NaN

\* nir_approx = clip(2 * green - red, 0, 255)
NirApprox(p) == Clip(2 * p.g - p.r, 0, 255)

\* the sum np.mean divides (summed pairwise, as numpy does)
RECURSIVE SeqSum(_)
SeqSum(s) ==
    IF s = <<>> THEN 0
    ELSE IF Len(s) = 1 THEN s[1]
    ELSE LET half == Len(s) \div 2
         IN SeqSum(SubSeq(s, 1, half)) + SeqSum(SubSeq(s, half + 1, Len(s)))

SeqMin(s) == CHOOSE m \in Range(s) : \A x \in Range(s) : m <= x
SeqMaxOf(s) == CHOOSE m \in Range(s) : \A x \in Range(s) : x <= m

\* largest r in lo..hi with r * r <= x
RECURSIVE ISqrtIn(_, _, _)
ISqrtIn(lo, hi, x) ==
    IF lo >= hi THEN lo
    ELSE LET mid == (lo + hi + 1) \div 2
         IN IF mid * mid <= x THEN ISqrtIn(mid, hi, x) ELSE ISqrtIn(lo, mid - 1, x)

\* np.mean; the mean of an empty slice is nan
Mean(s) ==
    IF s = <<>> \/ NaN \in Range(s) THEN NaN ELSE RoundDiv(SeqSum(s), Len(s))

\* np.std
Std(s) ==
    IF s = <<>> \/ NaN \in Range(s) THEN NaN
    ELSE LET m == Mean(s)
             sq == [i \in 1..Len(s) |-> RoundDiv((s[i] - m) * (s[i] - m), Scale)]
         IN ISqrtIn(0, 2 * Scale, RoundDiv(SeqSum(sq), Len(s)) * Scale)

\* np.min / np.max
MinOf(s) == IF s = <<>> \/ NaN \in Range(s) THEN NaN ELSE SeqMin(s)
MaxOf(s) == IF s = <<>> \/ NaN \in Range(s) THEN NaN ELSE SeqMaxOf(s)

\* mutant of NdviDenominator: the 1e-7 term forgotten
NdviDenominatorNoEps(p) == [halves |-> 2 * (p.r + NirApprox(p)), eps |-> 0]

\* line 47: denominator = red + nir_approx + 1e-7
NdviDenominator(p) == Denominator(p.r + NirApprox(p), 0)

\* lines 43-51: the clipped NDVI of one pixel
NdviPixel(p) == Clip(Quot(NirApprox(p) - p.r, NdviDenominator(p)), 0 - Scale, Scale)

NdviMap(pic) == [i \in 1..Len(pic.px) |-> NdviPixel(pic.px[i])]

\* mutant of HealthBucket: the thresholds applied to the normalized
\* value (ndvi + 1) / 2
HealthBucketOnNormalized(mean_ndvi) ==
    LET n == (mean_ndvi + Scale) \div 2
    IN  IF n < 2 * (Scale \div 10) THEN "Very Poor"
        ELSE IF n < 4 * (Scale \div 10) THEN "Poor"
        ELSE IF n < 6 * (Scale \div 10) THEN "Moderate"
        ELSE IF n < 8 * (Scale \div 10) THEN "Healthy"
        ELSE "Very Healthy"

\* lines 63-77: the five health buckets on the mean NDVI
HealthBucket(mean_ndvi) ==
    IF mean_ndvi < 2 * (Scale \div 10) THEN "Very Poor"
    ELSE IF mean_ndvi < 4 * (Scale \div 10) THEN "Poor"
    ELSE IF mean_ndvi < 6 * (Scale \div 10) THEN "Moderate"
    ELSE IF mean_ndvi < 8 * (Scale \div 10) THEN "Healthy"
    ELSE "Very Healthy"

\* summary text of calculate_ndvi's buckets (the leading words)
NdviSummary(status) ==
    CASE status = "Very Poor" -> "Critical attention needed - Onion crop severely stressed"
      [] status = "Poor" -> "Attention needed - Onion crop showing stress"
      [] status = "Moderate" -> "Moderate health - Onion crop with light green foliage"
      [] status = "Healthy" -> "Healthy - Onion crop with green foliage"
      [] OTHER -> "Very healthy - Onion crop with dark green vigorous foliage"

\* line 86
grid_size == 10

\* lines 92-96: the NDVI values of grid cell (x, y), row by row
CellValues(pic, ndvi, x, y) ==
    LET cell_h == pic.h \div grid_size
        cell_w == pic.w \div grid_size
        n == cell_h * cell_w
    IN  [k \in 1..n |->
            LET row == y * cell_h + ((k - 1) \div cell_w)
                col == x * cell_w + ((k - 1) % cell_w)
            IN ndvi[row * pic.w + col + 1]]

\* mutant of Severity: the "1 -" forgotten
SeverityNotInverted(cell_mean) ==
    IF cell_mean = NaN THEN NaN
    ELSE Clip((2 * cell_mean + 2 * Scale + 2) \div 4, 0, Scale)

\* line 99: severity = 1 - clip((cell_mean + 1) / 2, 0, 1)
Severity(cell_mean) ==
    IF cell_mean = NaN THEN NaN
    ELSE Scale - Clip(RoundDiv(cell_mean + Scale, 2), 0, Scale)

\* line 101: severity > 0.3 (false for nan)
SignificantStress(severity) == severity # NaN /\ severity > 3 * (Scale \div 10)

\* lines 92-107: the zone of cell (x, y), if its stress is significant
CellZone(pic, ndvi, x, y) ==
    LET cell_mean == Mean(CellValues(pic, ndvi, x, y))
        severity == Severity(cell_mean)
    IN  IF SignificantStress(severity)
        THEN <<[x |-> x, y |-> y, severity |-> Round2(severity),
                ndvi |-> Round3(cell_mean)]>>
        ELSE <<>>

\* line 91: for x in range(grid_size), from column x on
RECURSIVE RowZonesFrom(_, _, _, _)
RowZonesFrom(pic, ndvi, x, y) ==
    IF x >= grid_size THEN <<>>
    ELSE CellZone(pic, ndvi, x, y) \o RowZonesFrom(pic, ndvi, x + 1, y)

\* line 90: for y in range(grid_size), from row y on (y outer, x inner)
RECURSIVE StressZonesFrom(_, _, _)
StressZonesFrom(pic, ndvi, y) ==
    IF y >= grid_size THEN <<>>
    ELSE RowZonesFrom(pic, ndvi, 0, y) \o StressZonesFrom(pic, ndvi, y + 1)

NoNdvi ==
    [present |-> FALSE, ndvi_mean |-> 0, ndvi_std |-> 0, ndvi_min |-> 0,
     ndvi_max |-> 0, health_status |-> "", summary |-> "", stress_zones |-> <<>>,
     ndvi_map_shape |-> <<0, 0>>, stress_count |-> 0, nir_source |-> ""]

\* calculate_ndvi(image_path) on a readable picture.  nir_source records
\* where the NIR values came from: the function has the approximation only.
calculate_ndvi(pic) ==
    LET ndvi == NdviMap(pic)
        mean_ndvi == Mean(ndvi)
        zones == StressZonesFrom(pic, ndvi, 0)
    IN  [present |-> TRUE,
         ndvi_mean |-> Round3(mean_ndvi),
         ndvi_std |-> Round3(Std(ndvi)),
         ndvi_min |-> Round3(MinOf(ndvi)),
         ndvi_max |-> Round3(MaxOf(ndvi)),
         health_status |-> HealthBucket(mean_ndvi),
         summary |-> NdviSummary(HealthBucket(mean_ndvi)),
         stress_zones |-> zones,
         ndvi_map_shape |-> <<pic.h, pic.w>>,
         stress_count |-> Len(zones),
         nir_source |-> "approximation"]

\* line 222: denominator = red + nir_approx + L + 1e-7
SaviDenominator(p) == Denominator(p.r + NirApprox(p), LHalves)

\* lines 223-226: the clipped SAVI of one pixel, (q) * (1 + L)
SaviPixel(p) ==
    Clip(RoundDiv(Quot(NirApprox(p) - p.r, SaviDenominator(p)) * (2 + LHalves), 2),
         0 - Scale, Scale)

\* (x + 1) / 2
Normalized(x) == IF x = NaN THEN NaN ELSE RoundDiv(x + Scale, 2)

\* lines 230-233: the map the SAVI statistics are taken of
SaviStatMap(pic) == [i \in 1..Len(pic.px) |-> Normalized(SaviPixel(pic.px[i]))]

NoSavi ==
    [present |-> FALSE, savi_mean |-> 0, savi_std |-> 0, savi_min |-> 0,
     savi_max |-> 0, savi_map |-> <<>>, nir_source |-> ""]

\* calculate_savi(image_path) with the default L
calculate_savi(pic) ==
    LET m == SaviStatMap(pic)
    IN  [present |-> TRUE,
         savi_mean |-> Round3(Mean(m)),
         savi_std |-> Round3(Std(m)),
         savi_min |-> Round3(MinOf(m)),
         savi_max |-> Round3(MaxOf(m)),
         savi_map |-> [i \in 1..Len(pic.px) |-> Normalized(SaviPixel(pic.px[i]))],
         nir_source |-> "approximation"]

\* line 164: denominator = green + nir_approx + 1e-7
GndviDenominator(p) == Denominator(p.g + NirApprox(p), 0)

\* lines 165-168: the clipped GNDVI of one pixel
GndviPixel(p) == Clip(Quot(NirApprox(p) - p.g, GndviDenominator(p)), 0 - Scale, Scale)

\* lines 172-175: the map the GNDVI statistics are taken of (gndvi itself)
GndviStatMap(pic) == [i \in 1..Len(pic.px) |-> GndviPixel(pic.px[i])]

NoGndvi ==
    [present |-> FALSE, gndvi_mean |-> 0, gndvi_std |-> 0, gndvi_min |-> 0,
     gndvi_max |-> 0, gndvi_map |-> <<>>, nir_source |-> ""]

\* calculate_gndvi(image_path)
calculate_gndvi(pic) ==
    LET m == GndviStatMap(pic)
    IN  [present |-> TRUE,
         gndvi_mean |-> Round3(Mean(m)),
         gndvi_std |-> Round3(Std(m)),
         gndvi_min |-> Round3(MinOf(m)),
         gndvi_max |-> Round3(MaxOf(m)),
         gndvi_map |-> [i \in 1..Len(pic.px) |-> Normalized(GndviPixel(pic.px[i]))],
         nir_source |-> "approximation"]

\* Python's None where a number or a string is expected
NoneNum == NoneIdx
NoneStr == ""

\* model_path arguments: None, or a path given by the caller
ModelPaths == {NoneStr, "models/custom_model.h5"}

\* classifications a loaded model reports (class_names[predicted_idx], or
\* 'unknown' when the index is beyond the names)
Classifications == {"healthy", "very_poor", "unknown"}

\* confidences a loaded model reports
Confidences == {9 * (Scale \div 10)}

NoTf == [present |-> FALSE, classification |-> "", confidence |-> 0,
         model_loaded |-> FALSE]

\* classify_crop_health_tensorflow: the dicts it can return
TfOutcomes ==
    {[present |-> TRUE, classification |-> "model_not_found", confidence |-> 0,
      model_loaded |-> FALSE],
     [present |-> TRUE, classification |-> "error", confidence |-> 0,
      model_loaded |-> FALSE]}
    \cup {[present |-> TRUE, classification |-> c, confidence |-> k,
           model_loaded |-> TRUE] : c \in Classifications, k \in Confidences}

\* lines 421-431
StatusDescription(status) ==
    CASE status = "very_healthy" -> "Excellent crop health with high vegetation vigor"
      [] status = "healthy" -> "Good crop health with adequate vegetation"
      [] status = "moderate" -> "Moderate crop health requiring monitoring"
      [] status = "poor" -> "Poor crop health requiring attention"
      [] status = "very_poor" -> "Critical crop health requiring immediate intervention"
      [] status = "diseased" -> "Signs of disease detected - treatment recommended"
      [] status = "stressed" -> "Crop stress detected - review environmental conditions"
      [] status = "weeds" -> "Significant weed presence affecting crop health"
      [] OTHER -> "Crop health: " \o status

\* lines 434-444, in hundredths
BaseScore(status) ==
    CASE status = "very_healthy" -> 90
      [] status = "healthy" -> 75
      [] status = "moderate" -> 50
      [] status = "poor" -> 30
      [] status = "very_poor" -> 10
      [] status = "diseased" -> 20
      [] status = "stressed" -> 40
      [] status = "weeds" -> 35
      [] OTHER -> 50

\* summary text of analyze_crop_health's NDVI fallback
FallbackSummary(status) ==
    CASE status = "Very Poor" -> "Critical attention needed"
      [] status = "Poor" -> "Attention needed"
      [] status = "Moderate" -> "Moderate health"
      [] status = "Healthy" -> "Healthy"
      [] OTHER -> "Very healthy"

\* mutant of ModelOverrides: model_loaded not looked at
ModelOverridesUnloaded(tf) == tf.classification # ""

\* line 414: the model's classification is used
ModelOverrides(tf) == tf.model_loaded /\ tf.classification # ""

\* line 418 evaluates os.path.basename(model_path) when model_path is given;
\* image_processor.py imports os only inside classify_crop_health_tensorflow,
\* so the name is unbound here and the expression raises NameError
ModelVersionRaises(model_path) == model_path # NoneStr

NoAnalysis == [present |-> FALSE]

NoRequestA == [readable |-> TRUE, has_nir |-> FALSE, use_tensorflow |-> FALSE,
               model_path |-> NoneStr]

\* lines 446-485: the merged result dict
CombinedAnalysis(rq, ndvi, savi, gndvi, tf, pic) ==
    LET override == rq.use_tensorflow /\ ModelOverrides(tf)
        mean_ndvi == ndvi.ndvi_mean
        status == IF override THEN tf.classification ELSE HealthBucket(mean_ndvi)
        top ==
          [present |-> TRUE,
           health_status |-> status,
           health_score |-> IF override
                            THEN RoundDiv(BaseScore(status) * tf.confidence, 100)
                            ELSE Min(Scale, IF mean_ndvi + 2 * (Scale \div 10) < 0 THEN 0
                                            ELSE mean_ndvi + 2 * (Scale \div 10)),
           summary |-> IF override THEN StatusDescription(status)
                       ELSE FallbackSummary(status),
           tensorflow |-> IF rq.use_tensorflow THEN tf ELSE NoTf,
           confidence |-> IF override THEN tf.confidence ELSE NoneNum,
           model_version |-> IF override THEN "tensorflow_model" ELSE NoneStr,
           processed_image |-> pic,
           has_ndvi |-> ndvi.present,
           has_savi |-> savi.present,
           has_gndvi |-> gndvi.present,
           crop_type |-> "onion",
           analysis_type |-> IF rq.use_tensorflow /\ tf.model_loaded
                             THEN "tensorflow_onion_classification"
                             ELSE "ndvi_savi_gndvi_onion"]
    IN  top @@ gndvi @@ savi @@ ndvi

IndexInit ==
    /\ apc = "idle"
    /\ areq = NoRequestA
    /\ processed = NoPicture
    /\ ndvi_results = NoNdvi
    /\ savi_results = NoSavi
    /\ gndvi_results = NoGndvi
    /\ tf_results = NoTf
    /\ analysis = NoAnalysis

\* a call analyze_crop_health(image_path, use_tensorflow, model_path) on a
\* file that is readable or not and carries a genuine NIR band or not
Analyze ==
    /\ UNCHANGED <<loaderVars, workerVars, scriptVars, poolVars, storeVars>>
    /\ apc = "idle"
    /\ \E rd \in BOOLEAN, nr \in BOOLEAN, tf \in BOOLEAN, mp \in ModelPaths :
          areq' = [readable |-> rd, has_nir |-> nr, use_tensorflow |-> tf,
                   model_path |-> mp]
    /\ apc' = "preprocess"
    /\ processed' = NoPicture
    /\ ndvi_results' = NoNdvi
    /\ savi_results' = NoSavi
    /\ gndvi_results' = NoGndvi
    /\ tf_results' = NoTf
    /\ analysis' = NoAnalysis

\* line 393, preprocess_image: cv2.imread decodes to three 8-bit channels
\* (a fourth band is not read), the bilateral filter and the JPEG encoder
\* decide the stored samples
Preprocess ==
    /\ UNCHANGED <<loaderVars, workerVars, scriptVars, poolVars, storeVars>>
    /\ apc = "preprocess"
    /\ \/ \* cv2.imread returns None: ValueError
          /\ ~areq.readable
          /\ apc' = "failed"
          /\ UNCHANGED processed
       \/ /\ areq.readable
          /\ processed' \in Pictures
          /\ apc' = "ndvi"
    /\ UNCHANGED <<areq, ndvi_results, savi_results, gndvi_results, tf_results, analysis>>

\* line 396
CalcNdvi ==
    /\ UNCHANGED <<loaderVars, workerVars, scriptVars, poolVars, storeVars>>
    /\ apc = "ndvi"
    /\ \/ /\ ndvi_results' = calculate_ndvi(processed)
          /\ apc' = "savi"
       \/ \* calculate_ndvi raises: nothing in analyze_crop_health catches it
          /\ apc' = "failed"
          /\ UNCHANGED ndvi_results
    /\ UNCHANGED <<areq, processed, savi_results, gndvi_results, tf_results, analysis>>

\* line 399
CalcSavi ==
    /\ UNCHANGED <<loaderVars, workerVars, scriptVars, poolVars, storeVars>>
    /\ apc = "savi"
    /\ \/ /\ savi_results' = calculate_savi(processed)
          /\ apc' = "gndvi"
       \/ \* calculate_savi raises: nothing in analyze_crop_health catches it
          /\ apc' = "failed"
          /\ UNCHANGED savi_results
    /\ UNCHANGED <<areq, processed, ndvi_results, gndvi_results, tf_results, analysis>>

\* line 402
CalcGndvi ==
    /\ UNCHANGED <<loaderVars, workerVars, scriptVars, poolVars, storeVars>>
    /\ apc = "gndvi"
    /\ \/ /\ gndvi_results' = calculate_gndvi(processed)
          /\ apc' = "classify"
       \/ \* calculate_gndvi raises: nothing in analyze_crop_health catches it
          /\ apc' = "failed"
          /\ UNCHANGED gndvi_results
    /\ UNCHANGED <<areq, processed, ndvi_results, savi_results, tf_results, analysis>>

\* lines 404-418: the optional classifier call
Classify ==
    /\ UNCHANGED <<loaderVars, workerVars, scriptVars, poolVars, storeVars>>
    /\ apc = "classify"
    /\ \/ /\ ~areq.use_tensorflow
          /\ tf_results' = NoTf
          /\ apc' = "combine"
       \/ /\ areq.use_tensorflow
          /\ \E out \in TfOutcomes :
                /\ tf_results' = out
                /\ apc' = IF ModelOverrides(out) /\ ModelVersionRaises(areq.model_path)
                          THEN "failed" ELSE "combine"
    /\ UNCHANGED <<areq, processed, ndvi_results, savi_results, gndvi_results, analysis>>

\* lines 420-485
Combine ==
    /\ UNCHANGED <<loaderVars, workerVars, scriptVars, poolVars, storeVars>>
    /\ apc = "combine"
    /\ analysis' = CombinedAnalysis(areq, ndvi_results, savi_results, gndvi_results,
                                    tf_results, processed)
    /\ apc' = "done"
    /\ UNCHANGED <<areq, processed, ndvi_results, savi_results, gndvi_results, tf_results>>

\* the caller takes the dict (or the exception); the next call may start
AnalyzeReturn ==
    /\ UNCHANGED <<loaderVars, workerVars, scriptVars, poolVars, storeVars>>
    /\ apc \in {"done", "failed"}
    /\ apc' = "idle"
    /\ areq' = NoRequestA
    /\ processed' = NoPicture
    /\ ndvi_results' = NoNdvi
    /\ savi_results' = NoSavi
    /\ gndvi_results' = NoGndvi
    /\ tf_results' = NoTf
    /\ analysis' = NoAnalysis

IndexNext ==
    \/ Analyze
    \/ Preprocess
    \/ CalcNdvi
    \/ CalcSavi
    \/ CalcGndvi
    \/ Classify
    \/ Combine
    \/ AnalyzeReturn

(***************************************************************************)
(* Properties of the index engine                                          *)
(***************************************************************************)
Analysed == apc = "done"

\* C8: the NIR approximation clip(2*G - R, 0, 255) is applied only when the
\* input has no genuine NIR band: for an input with a true NIR channel
\* analyze_crop_health computes NDVI, SAVI and GNDVI from that channel.
C8_TrueNirUsedWhenPresent ==
    (Analysed /\ areq.has_nir) =>
        /\ ndvi_results.nir_source # "approximation"
        /\ savi_results.nir_source # "approximation"
        /\ gndvi_results.nir_source # "approximation"

InRange(x, lo, hi) == lo <= x /\ x <= hi

\* C9: for any 8-bit image calculate_ndvi reports ndvi_mean/min/max within
\* [-1, 1] and calculate_savi reports savi_mean/min/max within [0, 1]; the
\* denominators NIR+R+eps and NIR+R+L+eps are strictly positive for every
\* pixel, all-black pixels included.
C9_NdviSaviBoundsAndDenominators ==
    /\ ndvi_results.present =>
          /\ InRange(ndvi_results.ndvi_mean, 0 - Scale, Scale)
          /\ InRange(ndvi_results.ndvi_min, 0 - Scale, Scale)
          /\ InRange(ndvi_results.ndvi_max, 0 - Scale, Scale)
    /\ savi_results.present =>
          /\ InRange(savi_results.savi_mean, 0, Scale)
          /\ InRange(savi_results.savi_min, 0, Scale)
          /\ InRange(savi_results.savi_max, 0, Scale)
    /\ \A i \in 1..Len(processed.px) :
          /\ DenPositive(NdviDenominator(processed.px[i]))
          /\ DenPositive(SaviDenominator(processed.px[i]))

\* both indices computed on a picture with an all-black pixel beside a
\* pixel of NDVI 1
C9_Witness ==
    /\ ndvi_results.present
    /\ savi_results.present
    /\ \E i \in 1..Len(processed.px) : processed.px[i] = [r |-> 0, g |-> 0]
    /\ ndvi_results.ndvi_max = Scale
    /\ savi_results.savi_min < savi_results.savi_max

\* C10: calculate_gndvi reports gndvi_mean/std/min/max on the normalized
\* value (gndvi+1)/2, as SAVI does, so mean/min/max lie in [0, 1].
C10_GndviStatsNormalized ==
    gndvi_results.present =>
        /\ InRange(gndvi_results.gndvi_mean, 0, Scale)
        /\ InRange(gndvi_results.gndvi_min, 0, Scale)
        /\ InRange(gndvi_results.gndvi_max, 0, Scale)
        /\ gndvi_results.gndvi_mean = Round3(Mean(gndvi_results.gndvi_map))

Uniform(pic) == Len(pic.px) > 0 /\ \A i \in 1..Len(pic.px) : pic.px[i] = pic.px[1]

Flat128 == Uniform(processed) /\ processed.px[1] = FlatGreyPixel

\* C11 as claimed: for a uniform image with R=G=B=128 calculate_ndvi yields
\* mean NDVI 0 and the health bucket 'Moderate'.
C11_Flat128IsModerate ==
    (ndvi_results.present /\ Flat128) =>
        /\ ndvi_results.ndvi_mean = 0
        /\ ndvi_results.health_status = "Moderate"

\* C11 as amended: for a uniform image with R=G=B=128 calculate_ndvi yields
\* mean NDVI 0 and the health bucket 'Very Poor' (0 < 0.2).
C11_Flat128IsVeryPoor ==
    (ndvi_results.present /\ Flat128) =>
        /\ ndvi_results.ndvi_mean = 0
        /\ ndvi_results.health_status = "Very Poor"

C11_Witness ==
    /\ ndvi_results.present
    /\ Flat128
    /\ processed.h = 10
    /\ ndvi_results.ndvi_max = 0

HealthBuckets == {"Very Poor", "Poor", "Moderate", "Healthy", "Very Healthy"}

\* the model's classification replaced the index-based one
Overridden == areq.use_tensorflow /\ ModelOverrides(tf_results)

\* C12: with no model override the health_status of analyze_crop_health is
\* one of the five buckets of the image's mean NDVI, and it is the bucket
\* calculate_ndvi assigns to that image.
C12_StatusIsNdviBucket ==
    (Analysed /\ ~Overridden) =>
        /\ analysis.health_status \in HealthBuckets
        /\ analysis.health_status = ndvi_results.health_status

\* C13: for a uniform image of any dimensions calculate_ndvi emits 0 stress
\* zones when the NDVI is moderate and exactly 100 when it is very low.
C13_UniformZonesAllOrNone ==
    (ndvi_results.present /\ Uniform(processed)) =>
        /\ ndvi_results.health_status = "Moderate" => ndvi_results.stress_count = 0
        /\ ndvi_results.health_status = "Very Poor" => ndvi_results.stress_count = 100

\* severity 1 - clip((cell_mean + 1) / 2, 0, 1) of grid cell (x, y) exceeds 0.3
CellIsStressed(x, y) ==
    LET m == Mean(CellValues(processed, NdviMap(processed), x, y))
    IN  /\ m # NaN
        /\ Scale - Clip(RoundDiv(m + Scale, 2), 0, Scale) > 3 * (Scale \div 10)

\* C14: calculate_ndvi emits a stress-zone record for exactly the cells of
\* the 10x10 grid whose severity exceeds 0.3, in row-major order (y outer,
\* x inner): at most 100 entries, pairwise distinct (x, y) in 0..9 x 0..9.
C14_ZonesAreStressedCellsRowMajor ==
    ndvi_results.present =>
        LET z == ndvi_results.stress_zones
        IN  /\ Len(z) <= 100
            /\ ndvi_results.stress_count = Len(z)
            /\ \A i \in 1..Len(z) :
                  /\ z[i].x \in 0..9
                  /\ z[i].y \in 0..9
                  /\ CellIsStressed(z[i].x, z[i].y)
            /\ \A i \in 1..Len(z) : \A j \in (i + 1)..Len(z) :
                  \/ z[i].y < z[j].y
                  \/ (z[i].y = z[j].y /\ z[i].x < z[j].x)
            /\ \A x \in 0..9, y \in 0..9 :
                  CellIsStressed(x, y) => \E i \in 1..Len(z) : z[i].x = x /\ z[i].y = y

\* some cells of a row are stressed and some are not, over several rows
C14_Witness ==
    /\ ndvi_results.present
    /\ processed.h = 20
    /\ ndvi_results.stress_count = 40
    /\ ndvi_results.stress_zones[2] = [x |-> 3, y |-> 0, severity |-> Scale \div 2, ndvi |-> 0]

\* C15: a failure of calculate_savi or of calculate_gndvi alone does not
\* fail the analysis of the image (NDVI was computed, the later index was
\* not: the call still does not end in an exception).
C15_SaviGndviFailureNonFatal ==
    (ndvi_results.present /\ (~savi_results.present \/ ~gndvi_results.present)) =>
        apc # "failed"

\* C16: when the classifier is enabled and returns model_loaded with a
\* non-empty classification, analyze_crop_health returns successfully with
\* that classification and confidence, for any model_path; in every other
\* case health_status is the NDVI bucket.
C16_ModelClassificationOverrides ==
    /\ (tf_results.present /\ ModelOverrides(tf_results)) => apc # "failed"
    /\ Analysed =>
          IF Overridden
          THEN /\ analysis.health_status = tf_results.classification
               /\ analysis.confidence = tf_results.confidence
          ELSE analysis.health_status \in HealthBuckets

\* C17: if the model file is missing, fails to load or raises during
\* inference, analyze_crop_health still returns, with the index-based
\* health_status, the NDVI-derived health_score and no confidence.
C17_ClassifierFailureFallsBack ==
    (tf_results.present /\ ~tf_results.model_loaded) =>
        /\ apc # "failed"
        /\ Analysed =>
              /\ analysis.health_status \in HealthBuckets
              /\ analysis.health_status = HealthBucket(ndvi_results.ndvi_mean)
              /\ analysis.health_score =
                    Clip(ndvi_results.ndvi_mean + 2 * (Scale \div 10), 0, Scale)
              /\ analysis.confidence = NoneNum
              /\ analysis.model_version = NoneStr

\* the classifier raised during inference, with a model path given
C17_Witness ==
    /\ Analysed
    /\ tf_results.present
    /\ tf_results.classification = "error"
    /\ areq.model_path # NoneStr
    /\ analysis.health_status = "Healthy"

(***************************************************************************)
(* Part III: background_worker.py over the images table                    *)
(*                                                                         *)
(* While db = "up" the database executes the worker's statements; an      *)
(* UPDATE affects no row (rowcount = 0) when the table has no row of that  *)
(* id.  While db = "down" every statement raises.  A file is               *)
(* "ok", "unreadable" (it exists but no decoder reads it) or "missing"     *)
(* (found neither locally nor in S3).                                      *)
(***************************************************************************)
\* most rows of the images table
MaxImages == 2

ImageIds == 1..MaxImages

Statuses == {"uploaded", "processing", "completed", "failed"}

FileKinds == {"ok", "unreadable", "missing"}

ImageRows == [exists : BOOLEAN, status : Statuses, file : FileKinds]

\* states of datasets/dataset_registry.yaml: no file, a file with the
\* canonical order, one with another order, one without the key, and a file
\* yaml cannot parse
RegistryFiles == {"absent", "canonical", "reordered", "no_key", "malformed"}

\* load_dataset_registry(): the registry dict, or the parser's exception
load_dataset_registry(file) ==
    CASE file = "absent" ->
            [raised |-> FALSE, canonical_band_order |-> STANDARD_MULTISPECTRAL_BANDS]
      [] file = "canonical" ->
            [raised |-> FALSE, canonical_band_order |-> <<"R", "G", "B", "NIR">>]
      [] file = "reordered" ->
            [raised |-> FALSE, canonical_band_order |-> <<"B", "G", "R", "NIR">>]
      [] file = "no_key" ->
            [raised |-> FALSE, canonical_band_order |-> <<>>]
      [] OTHER ->
            [raised |-> TRUE, canonical_band_order |-> <<>>]

\* mutant of CanonicalOrderMatches: the comparison dropped
CanonicalOrderAccepted(yaml_canonical) == TRUE

\* line 75: yaml_canonical != STANDARD_MULTISPECTRAL_BANDS is False
CanonicalOrderMatches(yaml_canonical) == yaml_canonical = STANDARD_MULTISPECTRAL_BANDS

\* validate_canonical_band_order(): True, RuntimeError, or the exception of
\* load_dataset_registry
validate_canonical_band_order(file) ==
    LET reg == load_dataset_registry(file)
    IN  IF reg.raised THEN "YAMLError"
        ELSE IF CanonicalOrderMatches(reg.canonical_band_order) THEN "True"
        ELSE "RuntimeError"

\* line 47: WORKER_BATCH_SIZE's default
BATCH_SIZE == 5

\* _model_cache['model_type'] after load_model_once ("" = no model loaded)
ModelTypes == {"", "single_crop", "multi_crop"}

\* get_pending_images(limit): the ids of the rows with status 'uploaded',
\* oldest first (ids are given in upload order), at most limit of them
RECURSIVE PendingFrom(_, _, _)
PendingFrom(rows, i, limit) ==
    IF i > MaxImages \/ limit = 0 THEN <<>>
    ELSE IF rows[i].exists /\ rows[i].status = "uploaded"
         THEN <<i>> \o PendingFrom(rows, i + 1, limit - 1)
         ELSE PendingFrom(rows, i + 1, limit)

get_pending_images(rows, limit) == PendingFrom(rows, 1, limit)

\* mutant of update_image_status: the UPDATE has no WHERE clause
update_every_image_status(rows, i, status) ==
    [j \in ImageIds |-> IF rows[j].exists THEN [rows[j] EXCEPT !.status = status]
                        ELSE rows[j]]

\* update_image_status(image_id, status): the table afterwards
update_image_status(rows, i, status) ==
    IF rows[i].exists THEN [rows EXCEPT ![i].status = status] ELSE rows

\* mutant of set_processing_failed: the row is marked 'completed'
set_processing_failed_as_completed(rows, i) == update_image_status(rows, i, "completed")

set_processing_started(rows, i) == update_image_status(rows, i, "processing")
set_processing_failed(rows, i) == update_image_status(rows, i, "failed")

\* keyword arguments of the call at background_worker.py 329-334
AnalyzeCallKeywords == {"use_tensorflow", "model_path", "use_multi_crop"}

\* parameters of analyze_crop_health, image_processor.py 376-377
AnalyzeParameters == {"image_path", "use_tensorflow", "model_path"}

\* the call binds its keywords; otherwise Python raises TypeError before the
\* body of analyze_crop_health runs
AnalyzeCallBinds == AnalyzeCallKeywords \subseteq AnalyzeParameters

NoResults == [i \in ImageIds |-> "none"]

\* the worker process has not been started; the table is empty
WorkerInit ==
    /\ wpc = "off"
    /\ registry = "absent"
    /\ running = TRUE
    /\ model_cache = ""
    /\ images = [i \in ImageIds |-> [exists |-> FALSE, status |-> "uploaded", file |-> "ok"]]
    /\ pending = <<>>
    /\ last_result = NoResults
    /\ analyses = {}
    /\ validations = 0
    /\ fetched = FALSE
    /\ db = "up"

\* tables the worker may find when it starts: the first rows exist, each
\* uploaded, or completed or failed by an earlier run
StartTables ==
    {t \in [ImageIds -> [exists : BOOLEAN, status : {"uploaded", "completed", "failed"},
                         file : FileKinds]] :
        \A i \in ImageIds :
            IF t[i].exists
            THEN \A j \in ImageIds : j < i => t[j].exists
            ELSE t[i].status = "uploaded" /\ t[i].file = "ok"}

\* python background_worker.py, main() lines 470-480: the signal handlers
\* are registered; the registry file and the table are what they are
StartWorker ==
    /\ UNCHANGED <<loaderVars, indexVars, scriptVars, poolVars, storeVars, db>>
    /\ wpc = "off"
    /\ registry' \in RegistryFiles
    /\ images' \in StartTables
    /\ analyses' = {i \in ImageIds : images'[i].status = "completed"}
    /\ wpc' = "boot"
    /\ UNCHANGED <<running, model_cache, pending, last_result, validations, fetched>>

\* lines 482-487: validate the canonical band order; RuntimeError is caught
\* and ends the process with sys.exit(1), any other exception is uncaught
ValidateRegistry ==
    /\ UNCHANGED <<loaderVars, indexVars, scriptVars, poolVars, storeVars, db>>
    /\ wpc = "boot"
    /\ validations' = validations + 1
    /\ LET v == validate_canonical_band_order(registry)
       IN  wpc' = IF v = "True" THEN "testdb"
                  ELSE IF v = "RuntimeError" THEN "exited"
                  ELSE "crashed"
    /\ UNCHANGED <<registry, running, model_cache, images, pending, last_result,
                   analyses, fetched>>

\* lines 489-492: test_connection()
TestConnection ==
    /\ UNCHANGED <<loaderVars, indexVars, scriptVars, poolVars, storeVars, db>>
    /\ wpc = "testdb"
    /\ wpc' \in {"repair", "exited"}
    /\ UNCHANGED <<registry, running, model_cache, images, pending, last_result,
                   analyses, validations, fetched>>

\* lines 497-501: repair_image_paths() rewrites file_path columns only
RepairImagePaths ==
    /\ UNCHANGED <<loaderVars, indexVars, scriptVars, poolVars, storeVars, db>>
    /\ wpc = "repair"
    /\ wpc' = "loadmodel"
    /\ UNCHANGED <<registry, running, model_cache, images, pending, last_result,
                   analyses, validations, fetched>>

\* lines 503-507: load_model_once()
LoadModelOnce ==
    /\ UNCHANGED <<loaderVars, indexVars, scriptVars, poolVars, storeVars, db>>
    /\ wpc = "loadmodel"
    /\ model_cache' \in ModelTypes
    /\ wpc' = "loop"
    /\ UNCHANGED <<registry, running, images, pending, last_result, analyses,
                   validations, fetched>>

\* line 515 and process_batch lines 446-453: while running, fetch a batch
Poll ==
    /\ UNCHANGED <<loaderVars, indexVars, scriptVars, poolVars, storeVars, db>>
    /\ wpc = "loop"
    /\ IF running
       THEN \* get_pending_images returns [] when the query raises
            /\ pending' = IF db = "up" THEN get_pending_images(images, BATCH_SIZE)
                          ELSE <<>>
            /\ fetched' = TRUE
            /\ wpc' = "batch"
       ELSE /\ wpc' = "stopped"
            /\ UNCHANGED <<pending, fetched>>
    /\ UNCHANGED <<registry, running, model_cache, images, last_result, analyses,
                   validations>>

\* a for loop that never looks at the running flag
BatchNeverBreaks(r) == FALSE

\* lines 457-458: if not running: break
BatchBreaks(r) == ~r

\* lines 456-463: the for loop ends, or breaks because running is False
BatchEnd ==
    /\ UNCHANGED <<loaderVars, indexVars, scriptVars, poolVars, storeVars, db>>
    /\ wpc = "batch"
    /\ pending = <<>> \/ BatchBreaks(running)
    /\ pending' = <<>>
    /\ wpc' = "loop"
    /\ UNCHANGED <<registry, running, model_cache, images, last_result, analyses,
                   validations, fetched>>

\* process_image lines 305-312: mark the image 'processing'
StartImage ==
    /\ UNCHANGED <<loaderVars, indexVars, scriptVars, poolVars, storeVars, db>>
    /\ wpc = "batch"
    /\ pending # <<>>
    /\ ~BatchBreaks(running)
    /\ LET i == Head(pending)
       IN  IF db = "up" /\ images[i].exists
           THEN /\ images' = set_processing_started(images, i)
                /\ wpc' = "started"
                /\ UNCHANGED <<pending, last_result>>
           ELSE \* set_processing_started returns False: return False
                /\ last_result' = [last_result EXCEPT ![i] = "not_started"]
                /\ pending' = Tail(pending)
                /\ wpc' = "batch"
                /\ UNCHANGED images
    /\ UNCHANGED <<registry, running, model_cache, analyses, validations, fetched>>

\* process_image lines 314-320: download_image_if_needed
LocateImage ==
    /\ UNCHANGED <<loaderVars, indexVars, scriptVars, poolVars, storeVars, db>>
    /\ wpc = "started"
    /\ LET i == Head(pending)
       IN  IF images[i].file = "missing"
           THEN \* FileNotFoundError: set_processing_failed, return False
                \* (its return value is not looked at)
                /\ images' = IF db = "up" THEN set_processing_failed(images, i)
                             ELSE images
                /\ last_result' = [last_result EXCEPT ![i] = "file_not_found"]
                /\ pending' = Tail(pending)
                /\ wpc' = "batch"
           ELSE /\ wpc' = "located"
                /\ UNCHANGED <<images, pending, last_result>>
    /\ UNCHANGED <<registry, running, model_cache, analyses, validations, fetched>>

\* process_image lines 322-334 and 438-441: the call of analyze_crop_health
\* passes use_multi_crop, which the function does not accept: TypeError,
\* caught by the outer except, which marks the image failed.  Lines 336-436
\* are not reached.
AnalyzeImage ==
    /\ UNCHANGED <<loaderVars, indexVars, scriptVars, poolVars, storeVars, db>>
    /\ wpc = "located"
    /\ ~AnalyzeCallBinds
    /\ LET i == Head(pending)
       IN  /\ images' = IF db = "up" THEN set_processing_failed(images, i)
                        ELSE images
           /\ last_result' = [last_result EXCEPT ![i] = "analysis_raised"]
    /\ pending' = Tail(pending)
    /\ wpc' = "batch"
    /\ UNCHANGED <<registry, running, model_cache, analyses, validations, fetched>>

\* positions of a live worker process
Alive == {"boot", "testdb", "repair", "loadmodel", "loop", "batch", "started", "located"}

\* signal_handler, lines 70-74: SIGINT or SIGTERM arrives
Signal ==
    /\ UNCHANGED <<loaderVars, indexVars, scriptVars, poolVars, storeVars, db>>
    /\ wpc \in Alive
    /\ running
    /\ running' = FALSE
    /\ UNCHANGED <<wpc, registry, model_cache, images, pending, last_result,
                   analyses, validations, fetched>>

\* flask_api_db.py lines 120-122: the API inserts a row with status
\* 'uploaded' while the worker polls
UploadImage ==
    /\ UNCHANGED <<loaderVars, indexVars, scriptVars, poolVars, storeVars, db>>
    /\ wpc \in Alive
    /\ \E i \in ImageIds, f \in FileKinds :
          /\ ~images[i].exists
          /\ \A j \in ImageIds : j < i => images[j].exists
          /\ images' = [images EXCEPT ![i] = [exists |-> TRUE, status |-> "uploaded", file |-> f]]
    /\ UNCHANGED <<wpc, registry, running, model_cache, pending, last_result,
                   analyses, validations, fetched>>

\* the database stops executing statements: get_db_connection or
\* cur.execute raise, which every function of db_utils.py catches
DbFails ==
    /\ UNCHANGED <<loaderVars, indexVars, scriptVars, poolVars, storeVars>>
    /\ wpc \in Alive
    /\ db = "up"
    /\ db' = "down"
    /\ UNCHANGED <<wpc, registry, running, model_cache, images, pending,
                   last_result, analyses, validations, fetched>>

\* the database executes statements again
DbRecovers ==
    /\ UNCHANGED <<loaderVars, indexVars, scriptVars, poolVars, storeVars>>
    /\ db = "down"
    /\ db' = "up"
    /\ UNCHANGED <<wpc, registry, running, model_cache, images, pending,
                   last_result, analyses, validations, fetched>>

WorkerNext ==
    \/ StartWorker
    \/ ValidateRegistry
    \/ TestConnection
    \/ RepairImagePaths
    \/ LoadModelOnce
    \/ Poll
    \/ BatchEnd
    \/ StartImage
    \/ LocateImage
    \/ AnalyzeImage
    \/ Signal
    \/ UploadImage

(***************************************************************************)
(* Part IV: batch_test_ndvi.py                                             *)
(***************************************************************************)
\* most image files in the folder
MaxFiles == 2

\* folder.iterdir() lists files that exist
FolderFiles == UNION {[1..n -> {"ok", "unreadable"}] : n \in 1..MaxFiles}

ScriptInit ==
    /\ spc = "idle"
    /\ image_files = <<>>
    /\ next_file = 1
    /\ results = <<>>
    /\ failed = <<>>
    /\ json_files = {}

\* lines 20-50: the folder holds image files; results and failed start empty
ScriptStart ==
    /\ UNCHANGED <<loaderVars, indexVars, workerVars, poolVars, storeVars>>
    /\ spc = "idle"
    /\ image_files' \in FolderFiles
    /\ next_file' = 1
    /\ results' = <<>>
    /\ failed' = <<>>
    /\ json_files' = {}
    /\ spc' = "loop"

\* lines 53-110: one iteration of the for loop, the try and its except
ScriptImage ==
    /\ UNCHANGED <<loaderVars, indexVars, workerVars, poolVars, storeVars>>
    /\ spc = "loop"
    /\ next_file <= Len(image_files)
    /\ \/ \* analyze_crop_health or one of the index functions raises
          /\ failed' = Append(failed, next_file)
          /\ UNCHANGED <<results, json_files>>
       \/ \* the file is read and analysed, but writing the JSON raises
          /\ image_files[next_file] = "ok"
          /\ failed' = Append(failed, next_file)
          /\ UNCHANGED <<results, json_files>>
       \/ \* the result is written and appended to the summary
          /\ image_files[next_file] = "ok"
          /\ json_files' = json_files \cup {next_file}
          /\ results' = Append(results, next_file)
          /\ UNCHANGED failed
    /\ next_file' = next_file + 1
    /\ UNCHANGED <<spc, image_files>>

\* lines 112-150: the loop is over; the summary files are written
ScriptReport ==
    /\ UNCHANGED <<loaderVars, indexVars, workerVars, poolVars, storeVars>>
    /\ spc = "loop"
    /\ next_file > Len(image_files)
    /\ spc' = "done"
    /\ UNCHANGED <<image_files, next_file, results, failed, json_files>>

\* the script ends; it may be run again
ScriptReturn ==
    /\ UNCHANGED <<loaderVars, indexVars, workerVars, poolVars, storeVars>>
    /\ spc = "done"
    /\ spc' = "idle"
    /\ image_files' = <<>>
    /\ next_file' = 1
    /\ results' = <<>>
    /\ failed' = <<>>
    /\ json_files' = {}

ScriptNext ==
    \/ ScriptStart
    \/ ScriptImage
    \/ ScriptReport
    \/ ScriptReturn

(***************************************************************************)
(* Part V: worker processes sharing the images table                       *)
(*                                                                         *)
(* Every process runs main() of background_worker.py; the statements of    *)
(* db_utils.py are the atomic steps (each commits on its own).             *)
(***************************************************************************)
\* most worker processes
MaxWorkers == 2

WorkerIds == 1..MaxWorkers

PoolInit ==
    /\ wk = [w \in WorkerIds |-> [pc |-> "off", pending |-> <<>>]]
    /\ started_by = [i \in ImageIds |-> {}]
    /\ analysed_by = [i \in ImageIds |-> {}]

\* the processes are started on a table of uploaded and finished images
PoolStart ==
    /\ UNCHANGED <<loaderVars, indexVars, scriptVars, storeVars>>
    /\ wpc = "off"
    /\ \A w \in WorkerIds : wk[w].pc = "off"
    /\ \A i \in ImageIds : ~images[i].exists
    /\ images' \in StartTables
    /\ \E i \in ImageIds : images'[i].exists /\ images'[i].status = "uploaded"
    /\ analyses' = {i \in ImageIds : images'[i].status = "completed"}
    /\ wk' = [w \in WorkerIds |-> [pc |-> "loop", pending |-> <<>>]]
    /\ UNCHANGED <<wpc, registry, running, model_cache, pending, last_result,
                   validations, fetched, db, started_by, analysed_by>>

\* process_batch lines 446-453 in process w: SELECT the 'uploaded' rows
PoolPoll(w) ==
    /\ UNCHANGED <<loaderVars, indexVars, scriptVars, storeVars, workerVars>>
    /\ wk[w].pc = "loop"
    /\ LET rows == get_pending_images(images, BATCH_SIZE)
       IN  wk' = [wk EXCEPT ![w] = [pc |-> IF rows = <<>> THEN "loop" ELSE "batch",
                                    pending |-> rows]]
    /\ UNCHANGED <<started_by, analysed_by>>

\* process_image lines 308-312 in process w: UPDATE ... WHERE id = image_id
PoolStartImage(w) ==
    /\ UNCHANGED <<loaderVars, indexVars, scriptVars, storeVars>>
    /\ wk[w].pc = "batch"
    /\ wk[w].pending # <<>>
    /\ LET i == Head(wk[w].pending)
       IN  /\ images' = set_processing_started(images, i)
           /\ started_by' = [started_by EXCEPT ![i] = @ \cup {w}]
    /\ wk' = [wk EXCEPT ![w].pc = "started"]
    /\ UNCHANGED <<wpc, registry, running, model_cache, pending, last_result,
                   analyses, validations, fetched, db, analysed_by>>

\* process_image lines 314-320 in process w
PoolLocateImage(w) ==
    /\ UNCHANGED <<loaderVars, indexVars, scriptVars, storeVars>>
    /\ wk[w].pc = "started"
    /\ LET i == Head(wk[w].pending)
       IN  IF images[i].file = "missing"
           THEN /\ images' = set_processing_failed(images, i)
                /\ wk' = [wk EXCEPT ![w] = [pc |-> "batch", pending |-> Tail(@.pending)]]
           ELSE /\ wk' = [wk EXCEPT ![w].pc = "located"]
                /\ UNCHANGED images
    /\ UNCHANGED <<wpc, registry, running, model_cache, pending, last_result,
                   analyses, validations, fetched, db, started_by, analysed_by>>

\* process_image lines 322-334 and 438-441 in process w
PoolAnalyzeImage(w) ==
    /\ UNCHANGED <<loaderVars, indexVars, scriptVars, storeVars>>
    /\ wk[w].pc = "located"
    /\ ~AnalyzeCallBinds
    /\ LET i == Head(wk[w].pending)
       IN  /\ analysed_by' = [analysed_by EXCEPT ![i] = @ \cup {w}]
           /\ images' = set_processing_failed(images, i)
    /\ wk' = [wk EXCEPT ![w] = [pc |-> "batch", pending |-> Tail(@.pending)]]
    /\ UNCHANGED <<wpc, registry, running, model_cache, pending, last_result,
                   analyses, validations, fetched, db, started_by>>

\* process_batch lines 456-463 in process w: the for loop is over
PoolBatchEnd(w) ==
    /\ UNCHANGED <<loaderVars, indexVars, scriptVars, storeVars, workerVars>>
    /\ wk[w].pc = "batch"
    /\ wk[w].pending = <<>>
    /\ wk' = [wk EXCEPT ![w].pc = "loop"]
    /\ UNCHANGED <<started_by, analysed_by>>

PoolNext ==
    \/ PoolStart
    \/ \E w \in WorkerIds : PoolPoll(w)
    \/ \E w \in WorkerIds : PoolStartImage(w)
    \/ \E w \in WorkerIds : PoolLocateImage(w)
    \/ \E w \in WorkerIds : PoolAnalyzeImage(w)
    \/ \E w \in WorkerIds : PoolBatchEnd(w)

(***************************************************************************)
(* Part VI: db_utils.save_analysis                                         *)
(*                                                                         *)
(* analyses has a unique image_id (the ON CONFLICT target of the INSERT)   *)
(* and stress_zones a unique (analysis_id, grid_x, grid_y).                *)
(***************************************************************************)
\* longest stress_zones list of a call
MaxZones == 2

\* severities (in hundredths) that occur in the lists
Severities == {40, 90}

ZoneRecords == [x : {0, 1}, y : {0}, severity : Severities]

\* stress_zones lists as calculate_ndvi builds them: one zone per cell
ZoneLists ==
    {zs \in UNION {[1..n -> ZoneRecords] : n \in 0..MaxZones} :
        \A a, b \in 1..Len(zs) : a # b => <<zs[a].x, zs[a].y>> # <<zs[b].x, zs[b].y>>}

\* the analysis_data dicts passed to save_analysis
AnalysisData == [health_status : {"Healthy", "Poor"}, stress_zones : ZoneLists]

NeverSaved == [saved |-> FALSE, health_status |-> "", stress_zones |-> <<>>]

StoreInit ==
    /\ analysis_rows = [i \in ImageIds |-> <<>>]
    /\ stress_zone_rows = [i \in ImageIds |-> {}]
    /\ last_saved = [i \in ImageIds |-> NeverSaved]
    /\ save_returned = "none"

\* lines 210-252 / 283-317: INSERT INTO analyses ... ON CONFLICT (image_id)
\* DO UPDATE: the rows with that image_id afterwards
upsert_analysis(rows, data) ==
    IF rows = <<>> THEN <<[health_status |-> data.health_status]>>
    ELSE [k \in 1..Len(rows) |-> [health_status |-> data.health_status]]

\* lines 344-363: the INSERTs of the zones in list order, a later zone of
\* the same cell updating the earlier row
InsertedZones(zones) ==
    {zones[k] : k \in {k \in 1..Len(zones) :
                          \A m \in (k + 1)..Len(zones) :
                              <<zones[m].x, zones[m].y>> # <<zones[k].x, zones[k].y>>}}

\* lines 334-363: the stress_zones rows of the analysis afterwards; the
\* DELETE and the INSERTs run only for a non-empty list
saved_stress_zones(old_rows, zones) ==
    IF zones # <<>> THEN InsertedZones(zones) ELSE old_rows

\* save_analysis(image_id, analysis_data): commit and True, or an exception,
\* rollback and False
SaveAnalysis ==
    /\ UNCHANGED <<loaderVars, indexVars, workerVars, scriptVars, poolVars>>
    /\ \E i \in ImageIds, data \in AnalysisData :
          \/ /\ analysis_rows' = [analysis_rows EXCEPT ![i] = upsert_analysis(@, data)]
             /\ stress_zone_rows' = [stress_zone_rows EXCEPT
                                        ![i] = saved_stress_zones(@, data.stress_zones)]
             /\ last_saved' = [last_saved EXCEPT
                                  ![i] = [saved |-> TRUE,
                                          health_status |-> data.health_status,
                                          stress_zones |-> data.stress_zones]]
             /\ save_returned' = "True"
          \/ /\ save_returned' = "False"
             /\ UNCHANGED <<analysis_rows, stress_zone_rows, last_saved>>

StoreNext == SaveAnalysis

(***************************************************************************)
(* Properties of the worker                                                *)
(***************************************************************************)
\* process_image has returned for image i
Processed(i) == last_result[i] # "none"

\* C18: when the file cannot be read, analyze_crop_health stops at the
\* preprocess step with no processed image and no result of any step, and
\* once process_image has returned for an image whose file cannot be read,
\* the image's row is 'failed' and no analysis record of it is stored
C18_UnreadableFileFailsImage ==
    /\ (apc # "idle" /\ ~areq.readable) =>
          /\ apc \in {"preprocess", "failed"}
          /\ processed = NoPicture
          /\ ~ndvi_results.present
          /\ ~savi_results.present
          /\ ~gndvi_results.present
          /\ ~tf_results.present
          /\ ~analysis.present
    /\ \A i \in ImageIds :
          (images[i].exists /\ images[i].file = "unreadable" /\ Processed(i)) =>
              /\ images[i].status = "failed"
              /\ i \notin analyses

\* the worker has handled an uploaded image whose file cannot be read
C18_Witness ==
    \E i \in ImageIds :
        /\ images[i].exists
        /\ images[i].file = "unreadable"
        /\ last_result[i] = "analysis_raised"
        /\ images[i].status = "failed"
        /\ wpc = "batch"

\* the registry file parses and its canonical_band_order is not [R, G, B, NIR]
CanonicalMismatch ==
    LET reg == load_dataset_registry(registry)
    IN  /\ ~reg.raised
        /\ reg.canonical_band_order # <<"R", "G", "B", "NIR">>

\* C19: with a registry whose canonical_band_order differs from
\* [R, G, B, NIR] the worker is at its startup check or has exited after it,
\* has fetched no batch, and no image is 'processing' or has been through
\* process_image; the validation runs at most once, and has run once before
\* any batch is fetched
C19_MismatchStopsWorkerAtStartup ==
    /\ (wpc # "off" /\ CanonicalMismatch) =>
          /\ wpc \in {"boot", "exited"}
          /\ validations = 1 <=> wpc = "exited"
          /\ ~fetched
          /\ pending = <<>>
          /\ \A i \in ImageIds : ~Processed(i) /\ images[i].status # "processing"
          /\ analyses = {i \in ImageIds : images[i].status = "completed"}
    /\ validations <= 1
    /\ fetched => validations = 1
    /\ wpc \in {"loop", "batch", "started", "located", "stopped"} => validations = 1

\* the worker has exited on a reordered registry while an image waits
C19_Witness ==
    /\ wpc = "exited"
    /\ CanonicalMismatch
    /\ validations = 1
    /\ \E i \in ImageIds : images[i].exists /\ images[i].status = "uploaded"

\* process_image is running, or about to run, for the head of pending
InProcessImage == wpc \in {"batch", "started", "located"} /\ pending # <<>>

\* a step changes the row or the analysis record of an image only while
\* process_image handles that image
WorkerIsolation ==
    \A j \in ImageIds :
        (images[j].exists /\ (images'[j] # images[j]
                              \/ (j \in analyses') # (j \in analyses)
                              \/ last_result'[j] # last_result[j])) =>
            (InProcessImage /\ j = Head(pending))

\* an image leaves the for loop of process_batch because process_image has
\* returned for it, and the loop goes on with the next one; the rest of the
\* batch is given up only after a shutdown signal
WorkerContinuation ==
    (pending # <<>> /\ pending' # pending) =>
        \/ /\ pending' = Tail(pending)
           /\ wpc' = "batch"
           /\ last_result'[Head(pending)] # "none"
        \/ /\ pending' = <<>>
           /\ ~running

\* an iteration of the script's loop writes only its own file's outputs,
\* keeps the earlier entries of results and failed, and moves to the next
\* file whether it failed or not
ScriptIsolation ==
    (spc = "loop" /\ spc' = "loop") =>
        /\ json_files' \ {next_file} = json_files
        /\ \A k \in 1..Len(results) : k <= Len(results') /\ results'[k] = results[k]
        /\ \A k \in 1..Len(failed) : k <= Len(failed') /\ failed'[k] = failed[k]
        /\ next_file' = next_file + 1
        /\ Len(results') + Len(failed') = next_file

\* every file of the folder has been handled when the script reports
ScriptContinuation ==
    (spc = "loop" /\ spc' = "done") => Len(results) + Len(failed) = Len(image_files)

\* C22: in process_batch and in process_image_folder a failure while one
\* image is processed does not keep the remaining images from being
\* processed and changes neither the status nor the saved analysis of any
\* other image.
C22_FailureIsolatedToOneImage ==
    [][WorkerIsolation /\ WorkerContinuation /\ ScriptIsolation /\ ScriptContinuation]_vars

\* the first image of a batch failed for its missing file and the second
\* one was then processed
C22_Witness ==
    /\ wpc = "batch"
    /\ pending = <<>>
    /\ images[1].exists /\ images[1].file = "missing"
    /\ images[1].status = "failed"
    /\ last_result[1] = "file_not_found"
    /\ images[2].exists /\ images[2].file = "ok"
    /\ last_result[2] = "analysis_raised"

\* C23: with two or more workers on one images table every uploaded image
\* is claimed once: no image is marked 'processing' by more than one worker
\* and none is analysed by more than one worker.
C23_EachImageClaimedOnce ==
    \A i \in ImageIds :
        /\ Cardinality(started_by[i]) <= 1
        /\ Cardinality(analysed_by[i]) <= 1

\* C25: after successful save_analysis calls for an image the tables hold
\* one analysis record of it, with the values of the latest call, and its
\* stress_zones rows are exactly the zones of the latest call, also when
\* that list is empty.
C25_ZonesAreThoseOfLatestSave ==
    \A i \in ImageIds :
        last_saved[i].saved =>
            /\ Len(analysis_rows[i]) = 1
            /\ analysis_rows[i][1].health_status = last_saved[i].health_status
            /\ stress_zone_rows[i] = Range(last_saved[i].stress_zones)

\* process_image is between its status update to 'processing' and its
\* return for image i
BeingProcessed(i) == wpc \in {"started", "located"} /\ pending # <<>> /\ Head(pending) = i

\* C24: an image is 'processing' only while process_image runs for it: when
\* process_image returns the image is 'completed' or 'failed', whichever
\* step failed, the status update included.
C24_NeverLeftProcessing ==
    \A i \in ImageIds :
        (images[i].exists /\ images[i].status = "processing") => BeingProcessed(i)

\* the worker process has ended
Ended == wpc \in {"stopped", "exited", "crashed"}

\* one step taken while running is False: no row becomes 'processing', no
\* batch is fetched, and a row whose image is not in progress is not written
ShutdownStep ==
    ~running =>
        /\ \A i \in ImageIds :
              /\ images'[i].status = "processing" => images[i].status = "processing"
              /\ images[i].exists /\ ~BeingProcessed(i) => images'[i] = images[i]
        /\ wpc = "loop" => wpc' # "batch"
        /\ wpc = "batch" /\ wpc' # wpc => pending' = <<>> /\ wpc' = "loop"

Init == LoaderInit /\ IndexInit /\ WorkerInit /\ ScriptInit /\ PoolInit /\ StoreInit

\* load_multispectral_image alone
SpecLoader == Init /\ [][LoaderNext]_vars

\* analyze_crop_health alone
SpecIndex == Init /\ [][IndexNext]_vars

\* the worker process alone, on a database that executes its statements
SpecWorker == Init /\ [][WorkerNext]_vars

\* the worker process on a database that can fail and recover at any time
OutageNext ==
    \/ WorkerNext
    \/ DbFails
    \/ DbRecovers

SpecOutage == Init /\ [][OutageNext]_vars

\* the steps of the worker process itself, without signals, uploads and
\* database faults
WorkerStep ==
    \/ StartWorker
    \/ ValidateRegistry
    \/ TestConnection
    \/ RepairImagePaths
    \/ LoadModelOnce
    \/ Poll
    \/ BatchEnd
    \/ StartImage
    \/ LocateImage
    \/ AnalyzeImage

\* the worker, where the process keeps taking steps: no call of the loop
\* blocks (time.sleep returns, every db_utils function catches its
\* exceptions)
SpecShutdown == Init /\ [][WorkerNext]_vars /\ WF_vars(WorkerStep)

\* runs of the folder script, then the worker on a database that can fail
BatchNext ==
    \/ (wpc = "off" /\ ScriptStart)
    \/ (wpc = "off" /\ ScriptImage)
    \/ (wpc = "off" /\ ScriptReport)
    \/ (wpc = "off" /\ ScriptReturn)
    \/ (spc = "idle" /\ WorkerNext)
    \/ (spc = "idle" /\ DbFails)
    \/ (spc = "idle" /\ DbRecovers)

SpecBatch == Init /\ [][BatchNext]_vars

\* several worker processes on one table
SpecPool == Init /\ [][PoolNext]_vars

\* calls of save_analysis
SpecStore == Init /\ [][StoreNext]_vars

\* the API's calls of analyze_crop_health (flask_api.py line 76), then the
\* worker process: the two share no state, so every interleaving has the
\* states of one of these runs in each part
ServiceNext ==
    \/ (wpc = "off" /\ Analyze)
    \/ (wpc = "off" /\ Preprocess)
    \/ (wpc = "off" /\ CalcNdvi)
    \/ (wpc = "off" /\ CalcSavi)
    \/ (wpc = "off" /\ CalcGndvi)
    \/ (wpc = "off" /\ Classify)
    \/ (wpc = "off" /\ Combine)
    \/ (wpc = "off" /\ AnalyzeReturn)
    \/ (apc = "idle" /\ StartWorker)
    \/ (apc = "idle" /\ ValidateRegistry)
    \/ (apc = "idle" /\ TestConnection)
    \/ (apc = "idle" /\ RepairImagePaths)
    \/ (apc = "idle" /\ LoadModelOnce)
    \/ (apc = "idle" /\ Poll)
    \/ (apc = "idle" /\ BatchEnd)
    \/ (apc = "idle" /\ StartImage)
    \/ (apc = "idle" /\ LocateImage)
    \/ (apc = "idle" /\ AnalyzeImage)
    \/ (apc = "idle" /\ Signal)
    \/ (apc = "idle" /\ UploadImage)

SpecService == Init /\ [][ServiceNext]_vars

=============================================================================
